---- MODULE Spec2Model ----
(***************************************************************************)
(* Model of the asynchronous Logger of src/logger.h (lines 1-402): the     *)
(* ring buffer shared by the threads that call log and the background      *)
(* thread that runs processLogQueue, the rotation of the output file, and  *)
(* the Init / ~Logger lifecycle.  Every read or write of a field that      *)
(* another thread can touch is one step of the thread that makes it.       *)
(***************************************************************************)
EXTENDS Integers, Naturals, Sequences, FiniteSets, TLC

\* ------------------------------------------------------------------ bounds
\* BUFFER_SIZE is 1024 in the source (logger.h:30); the model scales it down.
BUFFER_SIZE == 3
\* Total number of log / logf / logf_utf8 calls made in one behaviour: of a
\* program with one logging thread, and of a program with two.
MaxLogs == 4
MaxLogsMulti == 3
\* The same for a program that calls Init twice.
MaxLogsReinit == 2
\* The same for a program in which two threads run ~Logger.
MaxLogsStop == 2
\* The same for a program whose file or background thread may fail to start,
\* and the last tick of the clock in that program.
MaxLogsFail == 3
MaxClockFail == 1
\* The same for a program that rotates its file: the clock runs into the
\* second year of the scaled calendar.
MaxLogsRotate == 2
MaxClockRotate == 17

\* ------------------------------------------------------- program constants
LOG_DEBUG == 0
LOG_INFO == 1
LOG_WARN == 2
LOG_ERROR == 3

ROTATE_MINUTELY == 0
ROTATE_HOURLY == 1
ROTATE_DAILY == 2
ROTATE_NEVER == 3

\* INVALID_HANDLE_VALUE for hFile and NULL for logThread.
INVALID_HANDLE_VALUE == 0
NULL == 0

Levels == {LOG_DEBUG, LOG_INFO, LOG_WARN, LOG_ERROR}
RotationKinds == {ROTATE_MINUTELY, ROTATE_HOURLY, ROTATE_DAILY, ROTATE_NEVER}

\* The threads of the client program that call the logging methods, and the
\* background threads Init can create (one per Init call).
Producers == {"p1", "p2"}
Writers == {1, 2}
\* The threads that call Init or run ~Logger: Main calls Init.
Owners == {"o1", "o2"}
Main == "o1"
Slots == 0 .. (BUFFER_SIZE - 1)

VARIABLES
    scn,              \* the client program: who logs, how often Init runs, ...
    clock,            \* the local wall clock, as of the last GetLocalTime
    level,            \* Logger::level
    rotationKind,     \* Logger::rotationKind
    lastRotationTime, \* Logger::lastRotationTime
    hFile,            \* Logger::hFile
    head,             \* Logger::head
    tail,             \* Logger::tail
    ready,            \* Logger::buffer[i].ready
    message,          \* Logger::buffer[i].message (the id of the record)
    logThread,        \* Logger::logThread
    running,          \* Logger::running
    fileMutex,        \* Logger::fileMutex: NULL or the thread that holds it
    handleTab,        \* the file handles the OS has given out: name, closes
    mpc,              \* each owner thread's position in Init / ~Logger
    inits,            \* Init calls started
    stops,            \* ~Logger bodies started
    phase,            \* the Logger's lifecycle, as the owner thread left it
    joins,            \* history: the background threads ~Logger has waited for
    stopHist,         \* history: what each thread's last ~Logger did
    pc,               \* each producer's position in log
    nextHead,         \* log's local nextHead
    cur,              \* the record a producer is logging
    wpc,              \* each background thread's position in processLogQueue
    currentTail,      \* processLogQueue's local currentTail
    recs,             \* history: by record id, the level of the call that
                      \* passed a level test, the threshold it was tested
                      \* against, and whether the Logger was running then
    dropped,          \* history: the calls a level test has turned away
    accepted,         \* history: records that passed log's level check
    returned,         \* history: accepted records whose log call returned
    slotWrites,       \* history: records stored in a slot since its last drain
    output,           \* history: the records written to files, in order
    atStop            \* history: `returned` when running was last cleared

vars == <<scn, clock, level, rotationKind, lastRotationTime, hFile, head, tail,
          ready, message, logThread, running, fileMutex, handleTab, mpc, inits,
          stops, phase, joins, stopHist, pc, nextHead, cur, wpc, currentTail, recs,
          dropped, accepted,
          returned, slotWrites, output, atStop>>

loggerVars == <<level, rotationKind, lastRotationTime, logThread, running>>
sinkVars == <<hFile, handleTab, fileMutex>>
ringVars == <<head, tail, ready, message>>
ownerVars == <<mpc, inits, stops, phase, joins, stopHist>>
producerVars == <<pc, nextHead, cur>>
writerVars == <<wpc, currentTail>>
historyVars == <<recs, dropped, accepted, returned, slotWrites, output, atStop>>

\* ------------------------------------------------------------------- clock
\* The calendar fields of clock tick k, on a calendar scaled down to two
\* minutes an hour, two hours a day, two days a month and two months a year.
SystemTime(k) ==
    [wMinute |-> k % 2,
     wHour   |-> (k \div 2) % 2,
     wDay    |-> 1 + ((k \div 4) % 2),
     wMonth  |-> 1 + ((k \div 8) % 2),
     wYear   |-> 2024 + (k \div 16)]

\* The ticks a call of GetLocalTime can return: the clock does not run
\* backwards, and it has moved on by any amount since it was last read.
GetLocalTime == clock .. scn.maxClock

\* --------------------------------------------------------------- rotation
\* The decision with the comparison of the years left out.
shouldRotate_noYear(kind, last, now) ==
    CASE kind = ROTATE_MINUTELY ->
            \/ now.wMinute # last.wMinute
            \/ now.wHour # last.wHour
            \/ now.wDay # last.wDay
            \/ now.wMonth # last.wMonth
      [] kind = ROTATE_HOURLY ->
            \/ now.wHour # last.wHour
            \/ now.wDay # last.wDay
            \/ now.wMonth # last.wMonth
      [] kind = ROTATE_DAILY ->
            \/ now.wDay # last.wDay
            \/ now.wMonth # last.wMonth
      [] OTHER -> FALSE

\* The decision that compares only the finest field of the rotation kind.
shouldRotate_finestOnly(kind, last, now) ==
    CASE kind = ROTATE_MINUTELY -> now.wMinute # last.wMinute
      [] kind = ROTATE_HOURLY -> now.wHour # last.wHour
      [] kind = ROTATE_DAILY -> now.wDay # last.wDay
      [] OTHER -> FALSE

\* The decision that compares nothing: rotate whenever rotation is on.
shouldRotate_always(kind, last, now) == kind # ROTATE_NEVER

\* The decision of checkRotation: the switch over rotationKind.
shouldRotate(kind, last, now) ==
    CASE kind = ROTATE_MINUTELY ->
            \/ now.wMinute # last.wMinute
            \/ now.wHour # last.wHour
            \/ now.wDay # last.wDay
            \/ now.wMonth # last.wMonth
            \/ now.wYear # last.wYear
      [] kind = ROTATE_HOURLY ->
            \/ now.wHour # last.wHour
            \/ now.wDay # last.wDay
            \/ now.wMonth # last.wMonth
            \/ now.wYear # last.wYear
      [] kind = ROTATE_DAILY ->
            \/ now.wDay # last.wDay
            \/ now.wMonth # last.wMonth
            \/ now.wYear # last.wYear
      [] OTHER -> FALSE

\* generateLogFileName: the timestamp part of the path (directory and prefix
\* are the same for every file of one Logger), as the fields sprintf_s prints.
generateLogFileName(kind, time) ==
    CASE kind = ROTATE_MINUTELY ->
            <<"min", time.wYear, time.wMonth, time.wDay, time.wHour, time.wMinute>>
      [] kind = ROTATE_HOURLY ->
            <<"hour", time.wYear, time.wMonth, time.wDay, time.wHour>>
      [] kind = ROTATE_DAILY ->
            <<"day", time.wYear, time.wMonth, time.wDay>>
      [] OTHER -> <<"never">>

\* ------------------------------------------------------------------- sink
\* CreateFileA may fail; whether the scenario lets it fail is part of scn.
OpenOutcomes == IF scn.openFails THEN {TRUE, FALSE} ELSE {TRUE}

\* openLogFile: the handle table and hFile after CreateFileA returned ok / not.
openLogFile_tab(tab, kind, time, ok) ==
    IF ok THEN Append(tab, [name |-> generateLogFileName(kind, time), closes |-> 0])
    ELSE tab

openLogFile_handle(tab, ok) ==
    IF ok THEN Len(tab) + 1 ELSE INVALID_HANDLE_VALUE

\* FlushFileBuffers + CloseHandle on handle h.
CloseHandle(tab, h) ==
    [tab EXCEPT ![h].closes = @ + 1]

\* The handle test left out: every handle counts as open.
IsOpen_always(h) == TRUE

\* The test before WriteFile, `hFile != INVALID_HANDLE_VALUE`, on a handle
\* that has not been closed.
IsOpen(h) == h # INVALID_HANDLE_VALUE /\ handleTab[h].closes = 0

\* -------------------------------------------------------------- producers
\* The level test with the comparison turned round.
BelowLevel_flipped(msgLevel, threshold) == msgLevel > threshold

\* The test `msgLevel < level` that opens log, logf and logf_utf8.
BelowLevel(msgLevel, threshold) == msgLevel < threshold

\* The head index advanced by two slots instead of one.
NextHead_skip(h) == (h + 2) % BUFFER_SIZE

\* log's `(head + 1) % BUFFER_SIZE` (line 328).
NextHead(h) == (h + 1) % BUFFER_SIZE

\* The Logger is running: Init has started the background thread and
\* ~Logger has not cleared the running flag.
IsRunning == running /\ logThread # NULL

\* A thread calls log, logf or logf_utf8 with level lvl: the call's first
\* statement tests the level (lines 322, 342, 354) and returns when it is
\* below the threshold.  logf and logf_utf8 then format the text and call
\* log, which tests the level again.
LogCall(p, api, lvl) ==
    /\ p \in scn.producers
    /\ pc[p] = "idle"
    /\ Len(recs) + dropped < scn.maxLogs
    /\ scn.early \/ phase # "constructed"
    /\ IF BelowLevel(lvl, level)
       THEN /\ dropped' = dropped + 1
            /\ UNCHANGED <<pc, cur, recs, accepted>>
       ELSE /\ recs' = Append(recs, [lvl |-> lvl, thr |-> level, live |-> IsRunning])
            /\ cur' = [cur EXCEPT ![p] = Len(recs) + 1]
            /\ pc' = [pc EXCEPT ![p] = IF api = "log" THEN "L328" ELSE "L322"]
            /\ accepted' = IF api = "log" THEN accepted \cup {Len(recs) + 1}
                           ELSE accepted
            /\ dropped' = dropped
    /\ UNCHANGED <<scn, clock, loggerVars, sinkVars, ringVars, ownerVars,
                   nextHead, writerVars, returned, slotWrites, output, atStop>>

\* log called from logf / logf_utf8: the level test of line 322.
Log322(p) ==
    /\ pc[p] = "L322"
    /\ IF BelowLevel(recs[cur[p]].lvl, level)
       THEN /\ pc' = [pc EXCEPT ![p] = "idle"]
            /\ cur' = [cur EXCEPT ![p] = 0]
            /\ dropped' = dropped + 1
            /\ UNCHANGED <<recs, accepted>>
       ELSE /\ pc' = [pc EXCEPT ![p] = "L328"]
            /\ recs' = [recs EXCEPT ![cur[p]].thr = level]
            /\ accepted' = accepted \cup {cur[p]}
            /\ UNCHANGED <<cur, dropped>>
    /\ UNCHANGED <<scn, clock, loggerVars, sinkVars, ringVars, ownerVars,
                   nextHead, writerVars, returned, slotWrites, output, atStop>>

\* Line 328: nextHead = (head.load() + 1) % BUFFER_SIZE.
Log328(p) ==
    /\ pc[p] = "L328"
    /\ nextHead' = [nextHead EXCEPT ![p] = NextHead(head)]
    /\ pc' = [pc EXCEPT ![p] = "L329"]
    /\ UNCHANGED <<scn, clock, loggerVars, sinkVars, ringVars, ownerVars, cur,
                   writerVars, historyVars>>

\* Lines 329-332: while (nextHead == tail.load()) Sleep(1).  One evaluation
\* of the loop test: the thread stays in the loop or leaves it.
Log329(p) ==
    /\ pc[p] \in {"L329", "L331"}
    /\ pc' = [pc EXCEPT ![p] = IF nextHead[p] = tail THEN "L331" ELSE "L335"]
    /\ UNCHANGED <<scn, clock, loggerVars, sinkVars, ringVars, ownerVars,
                   nextHead, cur, writerVars, historyVars>>

\* Line 335: buffer[head].message = formattedMessage (head is read again).
Log335(p) ==
    /\ pc[p] = "L335"
    /\ message' = [message EXCEPT ![head] = cur[p]]
    /\ slotWrites' = [slotWrites EXCEPT ![head] = @ \cup {cur[p]}]
    /\ pc' = [pc EXCEPT ![p] = "L336"]
    /\ UNCHANGED <<scn, clock, loggerVars, sinkVars, head, tail, ready,
                   ownerVars, nextHead, cur, writerVars, recs, dropped,
                   accepted, returned, output, atStop>>

\* The new head published at this point, before the ready flag is set.
Log336_headFirst(p) ==
    /\ pc[p] = "L336"
    /\ head' = nextHead[p]
    /\ pc' = [pc EXCEPT ![p] = "L337"]
    /\ UNCHANGED <<scn, clock, loggerVars, sinkVars, tail, ready, message,
                   ownerVars, nextHead, cur, writerVars, historyVars>>

\* Line 336: buffer[head].ready.store(true) (head is read again).
Log336(p) ==
    /\ pc[p] = "L336"
    /\ ready' = [ready EXCEPT ![head] = TRUE]
    /\ pc' = [pc EXCEPT ![p] = "L337"]
    /\ UNCHANGED <<scn, clock, loggerVars, sinkVars, head, tail, message,
                   ownerVars, nextHead, cur, writerVars, historyVars>>

\* Line 337: head.store(nextHead), and log returns.
Log337(p) ==
    /\ pc[p] = "L337"
    /\ head' = nextHead[p]
    /\ pc' = [pc EXCEPT ![p] = "idle"]
    /\ cur' = [cur EXCEPT ![p] = 0]
    /\ returned' = returned \cup {cur[p]}
    /\ UNCHANGED <<scn, clock, loggerVars, sinkVars, tail, ready, message,
                   ownerVars, nextHead, writerVars, recs, dropped, accepted,
                   slotWrites, output, atStop>>

\* ------------------------------------------------- the background thread
\* processLogQueue's `(currentTail + 1) % BUFFER_SIZE` (line 174).
NextTail(t) == (t + 1) % BUFFER_SIZE

\* Line 163: while (running).
Proc163(w) ==
    /\ wpc[w] = "W163"
    /\ wpc' = [wpc EXCEPT ![w] = IF running THEN "W164" ELSE "W182"]
    /\ UNCHANGED <<scn, clock, loggerVars, sinkVars, ringVars, ownerVars,
                   producerVars, currentTail, historyVars>>

\* Line 164: currentTail = tail.load().
Proc164(w) ==
    /\ wpc[w] = "W164"
    /\ currentTail' = [currentTail EXCEPT ![w] = tail]
    /\ wpc' = [wpc EXCEPT ![w] = "W165"]
    /\ UNCHANGED <<scn, clock, loggerVars, sinkVars, ringVars, ownerVars,
                   producerVars, historyVars>>

\* Line 165: while (currentTail != head.load()); when the loop ends the thread
\* goes on to Sleep(10) at line 179.
Proc165(w) ==
    /\ wpc[w] = "W165"
    /\ wpc' = [wpc EXCEPT ![w] = IF currentTail[w] # head THEN "W166" ELSE "W179"]
    /\ UNCHANGED <<scn, clock, loggerVars, sinkVars, ringVars, ownerVars,
                   producerVars, currentTail, historyVars>>

\* Line 166: if (buffer[currentTail].ready.load()); when it is false the inner
\* loop tests its condition again.
Proc166(w) ==
    /\ wpc[w] = "W166"
    /\ wpc' = [wpc EXCEPT ![w] = IF ready[currentTail[w]] THEN "W167" ELSE "W165"]
    /\ UNCHANGED <<scn, clock, loggerVars, sinkVars, ringVars, ownerVars,
                   producerVars, currentTail, historyVars>>

\* Line 167: checkRotation() (lines 190-242).  When it rotates it takes
\* fileMutex, closes the open file, stores the time it read as
\* lastRotationTime and opens the file of that time.
Proc167(w) ==
    /\ wpc[w] = "W167"
    /\ IF rotationKind = ROTATE_NEVER
       THEN UNCHANGED <<clock, handleTab, hFile, lastRotationTime>>
       ELSE \E k \in GetLocalTime :
              /\ clock' = k
              /\ IF shouldRotate(rotationKind, lastRotationTime, SystemTime(k))
                 THEN /\ fileMutex = NULL
                      /\ \E ok \in OpenOutcomes :
                           LET closed == IF hFile # INVALID_HANDLE_VALUE
                                         THEN CloseHandle(handleTab, hFile)
                                         ELSE handleTab
                           IN /\ handleTab' = openLogFile_tab(closed, rotationKind,
                                                              SystemTime(k), ok)
                              /\ hFile' = openLogFile_handle(closed, ok)
                      /\ lastRotationTime' = SystemTime(k)
                 ELSE UNCHANGED <<handleTab, hFile, lastRotationTime>>
    /\ wpc' = [wpc EXCEPT ![w] = "W168"]
    /\ UNCHANGED <<scn, level, rotationKind, logThread, running, fileMutex,
                   ringVars, ownerVars, producerVars, currentTail, historyVars>>

\* Lines 168-172: lock fileMutex and, when hFile is valid, WriteFile the
\* slot's message.
Proc168(w) ==
    /\ wpc[w] = "W168"
    /\ fileMutex = NULL
    /\ fileMutex' = w
    /\ output' = IF IsOpen(hFile)
                 THEN Append(output, [id |-> message[currentTail[w]], h |-> hFile])
                 ELSE output
    /\ wpc' = [wpc EXCEPT ![w] = "W173"]
    /\ UNCHANGED <<scn, clock, loggerVars, hFile, handleTab, ringVars,
                   ownerVars, producerVars, currentTail, recs, dropped,
                   accepted, returned, slotWrites, atStop>>

\* Line 173: buffer[currentTail].ready.store(false).
Proc173(w) ==
    /\ wpc[w] = "W173"
    /\ ready' = [ready EXCEPT ![currentTail[w]] = FALSE]
    /\ slotWrites' = [slotWrites EXCEPT ![currentTail[w]] = {}]
    /\ wpc' = [wpc EXCEPT ![w] = "W175"]
    /\ UNCHANGED <<scn, clock, loggerVars, sinkVars, head, tail, message,
                   ownerVars, producerVars, currentTail, recs, dropped,
                   accepted, returned, output, atStop>>

\* Lines 174-176: currentTail = (currentTail + 1) % BUFFER_SIZE;
\* tail.store(currentTail); the lock_guard of line 168 goes out of scope.
Proc175(w) ==
    /\ wpc[w] = "W175"
    /\ currentTail' = [currentTail EXCEPT ![w] = NextTail(currentTail[w])]
    /\ tail' = NextTail(currentTail[w])
    /\ fileMutex' = NULL
    /\ wpc' = [wpc EXCEPT ![w] = "W165"]
    /\ UNCHANGED <<scn, clock, loggerVars, hFile, handleTab, head, ready,
                   message, ownerVars, producerVars, historyVars>>

\* Line 179: Sleep(10), then the outer loop tests running again.
Proc179(w) ==
    /\ wpc[w] = "W179"
    /\ wpc' = [wpc EXCEPT ![w] = "W163"]
    /\ UNCHANGED <<scn, clock, loggerVars, sinkVars, ringVars, ownerVars,
                   producerVars, currentTail, historyVars>>

\* The exit path that closes the file and leaves hFile as it was.
Proc182_keepHandle(w) ==
    /\ wpc[w] = "W182"
    /\ fileMutex = NULL
    /\ IF hFile # INVALID_HANDLE_VALUE
       THEN handleTab' = CloseHandle(handleTab, hFile)
       ELSE handleTab' = handleTab
    /\ wpc' = [wpc EXCEPT ![w] = "done"]
    /\ UNCHANGED <<scn, clock, loggerVars, hFile, fileMutex, ringVars,
                   ownerVars, producerVars, currentTail, historyVars>>

\* Lines 182-188: under fileMutex, flush and close hFile when it is valid; the
\* thread ends.
Proc182(w) ==
    /\ wpc[w] = "W182"
    /\ fileMutex = NULL
    /\ IF hFile # INVALID_HANDLE_VALUE
       THEN /\ handleTab' = CloseHandle(handleTab, hFile)
            /\ hFile' = INVALID_HANDLE_VALUE
       ELSE UNCHANGED <<handleTab, hFile>>
    /\ wpc' = [wpc EXCEPT ![w] = "done"]
    /\ UNCHANGED <<scn, clock, loggerVars, fileMutex, ringVars, ownerVars,
                   producerVars, currentTail, historyVars>>

\* ------------------------------------------------------- the owner thread
\* CreateThread may fail; whether the scenario lets it fail is part of scn.
ThreadOutcomes == IF scn.threadFails THEN {TRUE, FALSE} ELSE {TRUE}

\* The thread CreateThread starts: the first one not yet used.
NewThread == CHOOSE w \in Writers : wpc[w] = "none" /\ \A v \in Writers : wpc[v] = "none" => w <= v

\* Init, lines 123-130: store the configuration, read the clock, and set
\* hFile to INVALID_HANDLE_VALUE.
Init123(lvl, rotation) ==
    /\ mpc[Main] = "idle"
    /\ inits < scn.maxInit
    /\ stops = 0 \/ scn.restart
    /\ lvl \in scn.levels
    /\ rotation \in scn.kinds
    /\ level' = lvl
    /\ rotationKind' = rotation
    /\ \E k \in GetLocalTime :
         /\ clock' = k
         /\ lastRotationTime' = SystemTime(k)
    /\ hFile' = INVALID_HANDLE_VALUE
    /\ inits' = inits + 1
    /\ mpc' = [mpc EXCEPT ![Main] = "I131"]
    /\ UNCHANGED <<scn, logThread, running, handleTab, fileMutex, ringVars,
                   stops, phase, joins, stopHist, producerVars, writerVars,
                   historyVars>>

\* Init, line 131: openLogFile().
Init131 ==
    /\ mpc[Main] = "I131"
    /\ \E ok \in OpenOutcomes :
         /\ handleTab' = openLogFile_tab(handleTab, rotationKind, lastRotationTime, ok)
         /\ hFile' = openLogFile_handle(handleTab, ok)
    /\ mpc' = [mpc EXCEPT ![Main] = "I134"]
    /\ UNCHANGED <<scn, clock, loggerVars, fileMutex, ringVars, inits, stops,
                   phase, joins, stopHist, producerVars, writerVars,
                   historyVars>>

\* Init, lines 134-139: CreateThread, and the value Init returns.
Init134 ==
    /\ mpc[Main] = "I134"
    /\ \E ok \in ThreadOutcomes :
         IF ok
         THEN /\ logThread' = NewThread
              /\ wpc' = [wpc EXCEPT ![NewThread] = "W163"]
              /\ phase' = "initialised"
         ELSE /\ logThread' = NULL
              /\ wpc' = wpc
              /\ phase' = "failed"
    /\ mpc' = [mpc EXCEPT ![Main] = "idle"]
    /\ UNCHANGED <<scn, clock, level, rotationKind, lastRotationTime, running,
                   sinkVars, ringVars, inits, stops, joins, stopHist,
                   producerVars, currentTail, historyVars>>

\* ~Logger, line 143: running = false.  stopHist notes whether this store is
\* the one that takes running from true to false.  No thread destroys the
\* Logger while another is inside Init.
Dtor143(t) ==
    /\ t \in scn.owners
    /\ mpc[t] = "idle"
    /\ mpc[Main] \notin {"I131", "I134"}
    /\ stops < scn.maxStop
    /\ running' = FALSE
    /\ stops' = stops + 1
    /\ atStop' = returned
    /\ phase' = "stopping"
    /\ stopHist' = [stopHist EXCEPT ![t] = [trans |-> running, joined |-> FALSE,
                                            io |-> FALSE]]
    /\ mpc' = [mpc EXCEPT ![t] = "D144"]
    /\ UNCHANGED <<scn, clock, level, rotationKind, lastRotationTime,
                   logThread, sinkVars, ringVars, inits, joins, producerVars,
                   writerVars, recs, dropped, accepted, returned, slotWrites,
                   output>>

\* ~Logger, line 144: if (logThread != NULL).
Dtor144(t) ==
    /\ mpc[t] = "D144"
    /\ mpc' = [mpc EXCEPT ![t] = IF logThread # NULL THEN "D145" ELSE "D149"]
    /\ UNCHANGED <<scn, clock, loggerVars, sinkVars, ringVars, inits, stops,
                   phase, joins, stopHist, producerVars, writerVars,
                   historyVars>>

\* ~Logger, line 145: WaitForSingleObject(logThread, INFINITE) returns when
\* that thread has ended (and at once, with WAIT_FAILED, on a NULL handle).
Dtor145(t) ==
    /\ mpc[t] = "D145"
    /\ logThread # NULL => wpc[logThread] = "done"
    /\ mpc' = [mpc EXCEPT ![t] = "D146"]
    /\ UNCHANGED <<scn, clock, loggerVars, sinkVars, ringVars, inits, stops,
                   phase, joins, stopHist, producerVars, writerVars,
                   historyVars>>

\* ~Logger, lines 146-147: CloseHandle(logThread); logThread = NULL.
Dtor146(t) ==
    /\ mpc[t] = "D146"
    /\ logThread' = NULL
    /\ joins' = IF logThread # NULL THEN joins + 1 ELSE joins
    /\ stopHist' = [stopHist EXCEPT ![t].joined = (logThread # NULL)]
    /\ mpc' = [mpc EXCEPT ![t] = "D149"]
    /\ UNCHANGED <<scn, clock, level, rotationKind, lastRotationTime, running,
                   sinkVars, ringVars, inits, stops, phase, producerVars,
                   writerVars, historyVars>>

\* ~Logger, lines 149-153: when hFile is valid, flush and close it and set it
\* to INVALID_HANDLE_VALUE.
Dtor149(t) ==
    /\ mpc[t] = "D149"
    /\ IF hFile # INVALID_HANDLE_VALUE
       THEN /\ handleTab' = CloseHandle(handleTab, hFile)
            /\ hFile' = INVALID_HANDLE_VALUE
            /\ stopHist' = [stopHist EXCEPT ![t].io = TRUE]
       ELSE UNCHANGED <<handleTab, hFile, stopHist>>
    /\ mpc' = [mpc EXCEPT ![t] = "idle"]
    /\ phase' = "stopped"
    /\ UNCHANGED <<scn, clock, loggerVars, fileMutex, ringVars, inits, stops,
                   joins, producerVars, writerVars, historyVars>>

\* ---------------------------------------------------------- specification
Apis == {"log", "logf", "logf_utf8"}

\* The state the constructor leaves (lines 112-120, and the member
\* initialisers of lines 26, 37 and 40), for a client program scn.
Constructed(s) ==
    /\ scn = s
    /\ clock = 0
    /\ level = LOG_DEBUG
    /\ rotationKind = ROTATE_NEVER
    /\ lastRotationTime = SystemTime(0)
    /\ hFile = INVALID_HANDLE_VALUE
    /\ head = 0
    /\ tail = 0
    /\ ready = [i \in Slots |-> FALSE]
    /\ message = [i \in Slots |-> 0]
    /\ logThread = NULL
    /\ running = TRUE
    /\ fileMutex = NULL
    /\ handleTab = << >>
    /\ mpc = [t \in Owners |-> "idle"]
    /\ inits = 0
    /\ stops = 0
    /\ phase = "constructed"
    /\ joins = 0
    /\ stopHist = [t \in Owners |-> [trans |-> FALSE, joined |-> FALSE, io |-> FALSE]]
    /\ pc = [p \in Producers |-> "idle"]
    /\ nextHead = [p \in Producers |-> 0]
    /\ cur = [p \in Producers |-> 0]
    /\ wpc = [w \in Writers |-> "none"]
    /\ currentTail = [w \in Writers |-> 0]
    /\ recs = << >>
    /\ dropped = 0
    /\ accepted = {}
    /\ returned = {}
    /\ slotWrites = [i \in Slots |-> {}]
    /\ output = << >>
    /\ atStop = {}

Next ==
    \/ \E p \in Producers, api \in Apis, lvl \in scn.msgLevels : LogCall(p, api, lvl)
    \/ \E p \in Producers : Log322(p)
    \/ \E p \in Producers : Log328(p)
    \/ \E p \in Producers : Log329(p)
    \/ \E p \in Producers : Log335(p)
    \/ \E p \in Producers : Log336(p)
    \/ \E p \in Producers : Log337(p)
    \/ \E w \in Writers : Proc163(w)
    \/ \E w \in Writers : Proc164(w)
    \/ \E w \in Writers : Proc165(w)
    \/ \E w \in Writers : Proc166(w)
    \/ \E w \in Writers : Proc167(w)
    \/ \E w \in Writers : Proc168(w)
    \/ \E w \in Writers : Proc173(w)
    \/ \E w \in Writers : Proc175(w)
    \/ \E w \in Writers : Proc179(w)
    \/ \E w \in Writers : Proc182(w)
    \/ \E lvl \in Levels, rotation \in RotationKinds : Init123(lvl, rotation)
    \/ Init131
    \/ Init134
    \/ \E t \in Owners : Dtor143(t)
    \/ \E t \in Owners : Dtor144(t)
    \/ \E t \in Owners : Dtor145(t)
    \/ \E t \in Owners : Dtor146(t)
    \/ \E t \in Owners : Dtor149(t)

\* Fair scheduling of the threads: a call in progress goes on, whoever made
\* it; the client program is not obliged to make one.
ProducerStep(p) ==
    Log322(p) \/ Log328(p) \/ Log329(p) \/ Log335(p) \/ Log336(p) \/ Log337(p)

WriterStep(w) ==
    \/ Proc163(w) \/ Proc164(w) \/ Proc165(w) \/ Proc166(w) \/ Proc167(w)
    \/ Proc168(w) \/ Proc173(w) \/ Proc175(w) \/ Proc179(w) \/ Proc182(w)

OwnerStep(t) ==
    \/ t = Main /\ (Init131 \/ Init134)
    \/ Dtor144(t) \/ Dtor145(t) \/ Dtor146(t) \/ Dtor149(t)

Fairness ==
    /\ \A p \in Producers : WF_vars(ProducerStep(p))
    /\ \A w \in Writers : WF_vars(WriterStep(w))
    /\ \A t \in Owners : WF_vars(OwnerStep(t))

\* A program with one logging thread (which may log before Init, too) that
\* calls Init once and lets the Logger be destroyed once; the file always opens and the thread always starts.
SingleScenario ==
    [producers |-> {"p1"}, owners |-> {Main}, maxLogs |-> MaxLogs, early |-> TRUE, maxInit |-> 1,
     maxStop |-> 1, restart |-> FALSE, maxClock |-> 0, kinds |-> {ROTATE_NEVER},
     levels |-> {LOG_INFO}, msgLevels |-> {LOG_DEBUG, LOG_WARN},
     openFails |-> FALSE, threadFails |-> FALSE]

\* The same program with two logging threads, which log once Init has
\* returned, every call at LOG_WARN.
MultiScenario ==
    [producers |-> {"p1", "p2"}, owners |-> {Main}, maxLogs |-> MaxLogsMulti, early |-> FALSE,
     maxInit |-> 1, maxStop |-> 1, restart |-> FALSE, maxClock |-> 0, kinds |-> {ROTATE_NEVER},
     levels |-> {LOG_INFO}, msgLevels |-> {LOG_WARN},
     openFails |-> FALSE, threadFails |-> FALSE]

\* A program with one logging thread that calls Init a second time, while the
\* Logger runs or after it was stopped.
ReinitScenario ==
    [producers |-> {"p1"}, owners |-> {Main}, maxLogs |-> MaxLogsReinit, early |-> TRUE,
     maxInit |-> 2, maxStop |-> 1,
     restart |-> TRUE, maxClock |-> 0, kinds |-> {ROTATE_NEVER},
     levels |-> {LOG_INFO}, msgLevels |-> {LOG_DEBUG, LOG_WARN},
     openFails |-> FALSE, threadFails |-> FALSE]

\* A program with one logging thread that calls Init once and in which the
\* body of ~Logger runs twice, on two threads, one after the other or at the
\* same time.
StopScenario ==
    [producers |-> {"p1"}, owners |-> Owners, maxLogs |-> MaxLogsStop,
     early |-> FALSE, maxInit |-> 1, maxStop |-> 2, restart |-> FALSE,
     maxClock |-> 0, kinds |-> {ROTATE_NEVER}, levels |-> {LOG_INFO},
     msgLevels |-> {LOG_WARN}, openFails |-> FALSE, threadFails |-> FALSE]

\* A program with one logging thread that calls Init once, with rotation
\* never or every minute, on a system where CreateFileA and CreateThread may
\* fail.
FailScenario ==
    [producers |-> {"p1"}, owners |-> {Main}, maxLogs |-> MaxLogsFail,
     early |-> FALSE, maxInit |-> 1, maxStop |-> 1, restart |-> FALSE,
     maxClock |-> MaxClockFail, kinds |-> {ROTATE_NEVER, ROTATE_MINUTELY},
     levels |-> {LOG_INFO}, msgLevels |-> {LOG_WARN}, openFails |-> TRUE,
     threadFails |-> TRUE]

\* A program with one logging thread that calls Init once with any rotation
\* kind, while the clock runs over every boundary of the calendar.
RotateScenario ==
    [producers |-> {"p1"}, owners |-> {Main}, maxLogs |-> MaxLogsRotate,
     early |-> FALSE, maxInit |-> 1, maxStop |-> 1, restart |-> FALSE,
     maxClock |-> MaxClockRotate, kinds |-> RotationKinds,
     levels |-> {LOG_INFO}, msgLevels |-> {LOG_WARN}, openFails |-> FALSE,
     threadFails |-> FALSE]

InitSingle == Constructed(SingleScenario)
InitRotate == Constructed(RotateScenario)
InitFail == Constructed(FailScenario)
InitStop == Constructed(StopScenario)
InitMulti == Constructed(MultiScenario)
InitReinit == Constructed(ReinitScenario)

SpecSingle == InitSingle /\ [][Next]_vars
SpecMulti == InitMulti /\ [][Next]_vars
SpecReinit == InitReinit /\ [][Next]_vars
SpecStop == InitStop /\ [][Next]_vars
SpecFail == InitFail /\ [][Next]_vars
SpecRotate == InitRotate /\ [][Next]_vars

FairSingle == SpecSingle /\ Fairness
FairMulti == SpecMulti /\ Fairness
FairReinit == SpecReinit /\ Fairness
FairFail == SpecFail /\ Fairness

\* ------------------------------------------------------------ properties
\* The ids of the records written to a file so far.
Written == {output[k].id : k \in 1 .. Len(output)}

\* A background thread is alive and the running flag is set.
WriterLive == running /\ \E w \in Writers : wpc[w] \notin {"none", "done"}

\* Every background thread that was started has ended.
WritersDone == \A w \in Writers : wpc[w] \in {"none", "done"}

\* ~Logger has run to its end on a Logger that Init had started: it has
\* waited for the background thread.
Destroyed == phase = "stopped" /\ joins > 0

\* C1: between two consecutive drains of a slot, at most one log call stores
\* its record in that slot, however many threads call log.
C1_OneWriterPerSlot == \A i \in Slots : Cardinality(slotWrites[i]) <= 1

\* C2: no step stores a record in a slot whose ready flag is set, that is, in
\* a slot that holds a record the background thread has not yet drained.
C2_NoOverwrite == [][\A i \in Slots : message'[i] # message[i] => ~ready[i]]_vars

\* C3: when ~Logger has completed, every record whose log call was made on the
\* running Logger and had returned before running was cleared has been
\* written to the file.
C3_DrainedAtShutdown ==
    Destroyed => \A id \in atStop : recs[id].live => id \in Written

\* C4: every record whose log call returned is written exactly once: it is
\* never written twice, and it is eventually written unless the background
\* thread is stopped.
C4_ExactlyOnce ==
    /\ [](\A j, k \in 1 .. Len(output) : output[j].id = output[k].id => j = k)
    /\ \A id \in 1 .. MaxLogs : (id \in returned) ~> (id \in Written \/ ~WriterLive)

\* C5: with one logging thread, the records are written in the order of the
\* log calls (record ids are given out in call order).
C5_OrderPreserved ==
    \A j, k \in 1 .. Len(output) : j < k => output[j].id < output[k].id

\* C5 witness: more records than the buffer has slots have been written, so
\* the indices have wrapped and a slot has been used twice.
C5_Wrapped == Len(output) > BUFFER_SIZE

\* C6: once running is cleared, the background threads end and ~Logger, which
\* waits for them, returns.
C6_ShutdownTerminates ==
    (~running) ~> (WritersDone /\ \A t \in Owners : mpc[t] = "idle")

\* C7: a log call made while the Logger is not running has no effect: no
\* record of such a call is ever accepted for the buffer.
C7_NoopWhenStopped == \A id \in accepted : recs[id].live

\* C8: a call whose level is below the threshold is never accepted (every
\* accepted record has a level at or above the threshold it was tested
\* against), and the step that turns a call away changes neither the ring
\* buffer nor the sink and leaves no thread inside log.
C8_BelowThresholdDropped ==
    /\ [](\A id \in 1 .. Len(recs) : recs[id].lvl >= recs[id].thr)
    /\ [][dropped' # dropped =>
            /\ UNCHANGED <<head, tail, ready, message, hFile, handleTab, output>>
            /\ \A p \in Producers : pc'[p] # pc[p] => pc'[p] = "idle"]_vars

\* C8 witness: calls have been turned away while another record was accepted
\* and written.
C8_SomeDropped == dropped > 0 /\ Len(output) > 0

\* C9: at most one background thread is alive at any time.
C9_OneWriter == Cardinality({w \in Writers : wpc[w] \notin {"none", "done"}}) <= 1

\* C10: when Init has succeeded on a Logger that had been stopped, the Logger
\* is running again.
C10_RestartRuns == (phase = "initialised" /\ joins > 0) => running

\* C11: when Init has failed to create the background thread, the running
\* flag is false and no log call made from then on has been accepted for the
\* buffer.
C11_FailedInitNotRunning ==
    phase = "failed" => (~running /\ accepted = {})

\* C12: of the runs of ~Logger's body, only the one whose store takes running
\* from true to false waits for the background thread and releases its
\* handle, and only that one touches the file; every other run does neither.
C12_OneStopper ==
    \A t \in Owners :
        (stopHist[t].joined \/ stopHist[t].io) => stopHist[t].trans

\* C13: a producer that waits because the buffer is full (nextHead = tail)
\* gets to store its record, as long as the background thread runs; and while
\* it waits it has stored its record in no slot.
C13_FullWaitEnds ==
    /\ \A p \in Producers :
          (pc[p] = "L331") ~> (pc[p] = "L335" \/ ~WriterLive)
    /\ [](\A p \in Producers : pc[p] \in {"L329", "L331"} =>
            \A i \in Slots : message[i] # cur[p])

\* C14: whenever the background thread runs checkRotation, it rotates (stores
\* a new lastRotationTime) exactly when the reference decision says so: never
\* for ROTATE_NEVER, and for the other kinds when one of the calendar fields
\* from the kind's own field up to the year differs between lastRotationTime
\* and the time read.
C14_RotationDecision ==
    [][\A w \in Writers : wpc[w] = "W167" /\ wpc'[w] = "W168" =>
         LET now == SystemTime(clock')
             fields == CASE rotationKind = ROTATE_MINUTELY ->
                               {"wMinute", "wHour", "wDay", "wMonth", "wYear"}
                         [] rotationKind = ROTATE_HOURLY ->
                               {"wHour", "wDay", "wMonth", "wYear"}
                         [] rotationKind = ROTATE_DAILY ->
                               {"wDay", "wMonth", "wYear"}
                         [] OTHER -> {}
         IN (lastRotationTime' # lastRotationTime) <=>
                (\E f \in fields : now[f] # lastRotationTime[f])]_vars

\* C14 witness: with hourly rotation the file has been rotated at a time
\* whose hour is the hour of the previous file: the day, month or year
\* differed.
C14_RotatedOnOuterField ==
    /\ rotationKind = ROTATE_HOURLY
    /\ Len(handleTab) = 2
    /\ handleTab[1].name[5] = handleTab[2].name[5]

\* C15: no two files of a run carry the same period name (one rotation per
\* boundary crossed); lastRotationTime and the open file change only in Init
\* or in the checkRotation of a record being drained, which stores the time
\* it read; and a record drained in the period of lastRotationTime causes no
\* rotation.
C15_RotateOncePerPeriod ==
    /\ [](\A j, k \in 1 .. Len(handleTab) :
            handleTab[j].name = handleTab[k].name => j = k)
    /\ [][(lastRotationTime' # lastRotationTime \/ Len(handleTab') > Len(handleTab)) =>
            \/ mpc'[Main] # mpc[Main]
            \/ \E w \in Writers :
                  /\ wpc[w] = "W167" /\ wpc'[w] = "W168"
                  /\ ready[currentTail[w]]
                  /\ lastRotationTime' = SystemTime(clock')
                  /\ Len(handleTab') = Len(handleTab) + 1]_vars
    /\ [][\A w \in Writers :
            /\ wpc[w] = "W167" /\ wpc'[w] = "W168"
            /\ generateLogFileName(rotationKind, SystemTime(clock')) =
                   generateLogFileName(rotationKind, lastRotationTime)
            => UNCHANGED <<lastRotationTime, hFile, handleTab>>]_vars

\* C15 witness: after a rotation a second record has been drained in the
\* period of the first, into the same file.
C15_TwoInOnePeriod ==
    /\ rotationKind = ROTATE_DAILY
    /\ Len(handleTab) = 2
    /\ Len(output) = 2
    /\ output[1].h = 2 /\ output[2].h = 2

\* C16: a record is written to the file named for the calendar period of the
\* clock as checkRotation read it for that record, and with ROTATE_NEVER every
\* record goes to one and the same file.
C16_FileOfThePeriod ==
    /\ [][Len(output') > Len(output) =>
            LET r == output'[Len(output')]
            IN /\ handleTab[r.h].closes = 0
               /\ handleTab[r.h].name =
                      generateLogFileName(rotationKind, SystemTime(clock))]_vars
    /\ [](rotationKind = ROTATE_NEVER =>
            \A j, k \in 1 .. Len(output) : output[j].h = output[k].h)

\* C16 witness: with daily rotation two records have been written to two
\* files with different names.
C16_TwoPeriods ==
    /\ rotationKind = ROTATE_DAILY
    /\ Len(output) = 2
    /\ handleTab[output[1].h].name # handleTab[output[2].h].name

\* C17: while the file could not be opened the background thread goes on: it
\* leaves its loop only when running is cleared, the drain of a record with
\* hFile invalid writes nothing, every record in the buffer is drained and a
\* waiting producer gets its slot, and hFile becomes valid again only in Init
\* or in a rotation (never, then, with ROTATE_NEVER).
C17_SinkOutage ==
    /\ [](\A w \in Writers : wpc[w] \in {"W182", "done"} => ~running)
    /\ [][\A w \in Writers :
            wpc[w] = "W168" /\ wpc'[w] = "W173" /\ hFile = INVALID_HANDLE_VALUE
            => output' = output]_vars
    /\ (WriterLive /\ tail # head) ~> (tail = head \/ ~WriterLive)
    /\ \A p \in Producers :
          (pc[p] = "L331") ~> (pc[p] = "L335" \/ ~WriterLive)
    /\ [][hFile = INVALID_HANDLE_VALUE /\ hFile' # INVALID_HANDLE_VALUE =>
            \/ mpc[Main] = "I131"
            \/ /\ rotationKind # ROTATE_NEVER
               /\ lastRotationTime' # lastRotationTime
               /\ \E w \in Writers : wpc[w] = "W167"]_vars

\* C17 witness: the file did not open, the Logger runs, and the background
\* thread has drained every record logged without writing any.
C17_Discarded ==
    /\ running /\ logThread # NULL
    /\ hFile = INVALID_HANDLE_VALUE
    /\ returned # {}
    /\ tail = head
    /\ Len(output) = 0

\* C18: at most one file handle is open at any time: no file is opened while
\* an earlier handle is still open.
C18_OneOpenHandle ==
    Cardinality({h \in 1 .. Len(handleTab) : handleTab[h].closes = 0}) <= 1

\* C19: whenever no log call and no drain of a record is in progress, a
\* slot's ready flag is set exactly when the slot lies in [tail, head) mod
\* BUFFER_SIZE.
C19_ReadyIffOccupied ==
    ((\A p \in Producers : pc[p] = "idle") /\
     (\A w \in Writers : wpc[w] \notin {"W166", "W167", "W168", "W173", "W175"}))
    => \A i \in Slots :
         ready[i] <=> ((i - tail) % BUFFER_SIZE < (head - tail) % BUFFER_SIZE)

\* C20: a background thread that finds the slot at currentTail not ready
\* leaves the inner loop for the Sleep of the outer loop: its next step takes
\* it to line 179, not back to the test of the inner loop.
C20_StopAtNotReady ==
    [][\A w \in Writers :
         wpc[w] = "W166" /\ ~ready[currentTail[w]] /\ wpc'[w] # wpc[w]
         => wpc'[w] = "W179" /\ tail' = tail]_vars

\* C21: when a background thread has ended, hFile is invalid; no handle is
\* ever closed twice, by the thread's exit path, by a rotation or by ~Logger;
\* and when ~Logger has completed every handle that was opened has been
\* closed once.
C21_ClosedOncePerOpen ==
    /\ (\E w \in Writers : wpc[w] = "done") => hFile = INVALID_HANDLE_VALUE
    /\ \A h \in 1 .. Len(handleTab) : handleTab[h].closes <= 1
    /\ phase = "stopped" =>
          \A h \in 1 .. Len(handleTab) : handleTab[h].closes = 1

\* C21 witness: the background thread has closed the file on its way out and
\* ~Logger, which waited for it, has run past its own close.
C21_ClosedByThreadThenDtor ==
    /\ phase = "stopped" /\ joins > 0
    /\ Len(handleTab) > 0
    /\ \E w \in Writers : wpc[w] = "done"

\* C22: with one logging thread, a background thread that has seen
\* currentTail # head finds the slot at currentTail ready: at the test of
\* line 166 the flag is set.
C22_ReadyWhenObserved ==
    \A w \in Writers : wpc[w] = "W166" => ready[currentTail[w]]

\* C22 witness: the background thread is at the test of line 166 for a slot
\* that is in use for the second time.
C22_ObservedAfterWrap ==
    \E w \in Writers :
        /\ wpc[w] = "W166"
        /\ running
        /\ Len(output) >= BUFFER_SIZE

\* C23: the step that completes an accepted log call moves head forward by
\* exactly one slot, and the call's record is in the slot head pointed at
\* before; tail is changed only by a background thread that has drained a
\* record, by exactly one slot.
C23_HeadAdvancesByOne ==
    [][/\ \A p \in Producers :
            pc[p] = "L337" /\ pc'[p] = "idle" =>
                /\ head' = (head + 1) % BUFFER_SIZE
                /\ message[head] = cur[p]
       /\ tail' # tail =>
            /\ tail' = (tail + 1) % BUFFER_SIZE
            /\ \E w \in Writers : wpc[w] = "W175" /\ wpc'[w] = "W165"]_vars

====
